---- MODULE Spec2Model ----
(***************************************************************************)
(* A model of the peer coordination node of Iakl/CommTest:                  *)
(*   - DistributedWorker (src/distributed_worker_rest.py): peer registry,   *)
(*     one-shot send and broadcast, response correlator, task queue and     *)
(*     worker loop, the Flask routes that drive them, shutdown;             *)
(*   - CommNode (src/comm_node.py): the retrying sender.                    *)
(* Threads interleave at the granularity of the Python statements that read *)
(* or write shared state (list membership, append, remove, copy and dict    *)
(* operations are single steps; network calls are steps whose outcome the   *)
(* environment chooses).                                                    *)
(***************************************************************************)
EXTENDS Integers, Sequences, FiniteSets, TLC

(* ------------------------------ bounds --------------------------------- *)
\* External events of one run: inbound requests the Flask server accepts,
\* and the shutdown signal.
MaxReq == 2
\* The timeout of wait_for_responses, counted in polls (sleep(0.1) each).
TimeoutPolls == 2
\* The clock seconds int(time.time()) takes when ids are made, counted from
\* 0 (no id made yet); large enough for every collaborative task of a run.
MaxNow == 3
\* Failed delivery attempts one retry unit makes in one run.
MaxRetries == 6
\* Chat messages one CommNode receives in one run.
MaxChat == 3

(* ------------------------------ values --------------------------------- *)
\* An address is a sequence of tokens: <<host>> as typed without a scheme,
\* <<"http://", host>> with one.  Value equality is string equality.
HTTP == "http://"
RawAddrs == {<<"a">>, <<HTTP, "a">>, <<HTTP, "b">>}
NodeIds == {"A", "B"}
Handlers == {"h1", "h2"}
Broadcasters == {"worker", "main"}
Threads == Broadcasters \cup Handlers
NoOwner == "free"
NoReq == [kind |-> "none"]
NoReply == [status |-> "none"]
NoTask == [task_id |-> "none", needs_collaboration |-> FALSE]
NoRm == [addr |-> <<>>, ret |-> "none"]
NoBc == [snap |-> <<>>, idx |-> 1, dead |-> <<>>, replies |-> <<>>,
         type |-> "none", ret |-> "none"]

\* Line 57: peer_address.startswith('http')
StartsWithHttp(a) == Len(a) > 0 /\ Head(a) = HTTP
\* Lines 57-58: the default scheme is added when none is given.
Normalize(a) == IF StartsWithHttp(a) THEN a ELSE <<HTTP>> \o a

\* x in list
InList(x, s) == \E i \in 1..Len(s) : s[i] = x
\* list.remove(x): the first occurrence goes, the others stay.
ListRemove(s, x) ==
    LET i == CHOOSE k \in 1..Len(s) : s[k] = x /\ \A j \in 1..(k-1) : s[j] # x
    IN  SubSeq(s, 1, i-1) \o SubSeq(s, i+1, Len(s))
Count(x, s) == Cardinality({i \in 1..Len(s) : s[i] = x})
Range(s) == {s[i] : i \in 1..Len(s)}

\* message_id = f"collab_{task_id}_{int(time.time())}" (line 155)
MessageId(task_id, t) == <<"collab", task_id, t>>
\* The ids inbound collaboration_response messages carry: those a
\* collab_1 task can have been given up to the present second.
MessageIds(t) == {MessageId("collab_1", u) : u \in 0..t}
\* A response entry of the correlator (lines 297-301); the sender's payload
\* and timestamp travel together as data.
Entry(from, data) == [from_node |-> from, data |-> data]

VARIABLES
    peers,          \* self.peers: list of addresses
    task_queue,     \* self.task_queue (FIFO)
    responses,      \* self.responses: message_id -> list of entries
    response_lock,  \* self.response_lock: owning thread or NoOwner
    running,        \* self.running
    now,            \* int(time.time()) as last read
    pc,             \* position of every thread
    req,            \* the request a handler thread is serving
    reply,          \* the reply the server gave last
    rm,             \* remove_peer frame of a thread: argument, return point
    bc,             \* broadcast_message frame of a broadcasting thread
    wk,             \* process_task / wait_for_responses locals of the worker
    sent,           \* history: delivery attempts made and whether a reply
                    \* came back, {[to, type, ok]}
    recorded,       \* history: appends made to the correlator, per id
    results,        \* history: results the worker loop logged
    nreq,           \* external events so far
    add_failed,     \* history: addresses whose add_peer probe failed
    enqueued,       \* history: the tasks put on the queue, in the order put
    cn_running,     \* CommNode: self.running
    peers_addresses,\* CommNode: self.peers_addresses, node id -> address
    unit,           \* CommNode: the retry_send threads, one record each
    caller,         \* CommNode: the thread running send_initial_messages
    peers_data,     \* CommNode: self.peers_data, node id -> last value heard
    self_consumption, \* CommNode: self.self_consumption
    timers,         \* CommNode: the Timer objects handle_chat_message started
    nchat           \* CommNode: chat messages received so far

dw_vars == <<peers, task_queue, responses, response_lock, running, now, pc,
             req, reply, rm, bc, wk, sent, recorded, results, nreq,
             add_failed, enqueued>>
chat_vars == <<peers_data, self_consumption, timers, nchat>>
cn_vars == <<cn_running, peers_addresses, unit, caller, chat_vars>>
vars == <<dw_vars, cn_vars>>

NoWk == [task |-> NoTask, message_id |-> <<>>, asked |-> 0, expected |-> 0,
         elapsed |-> 0, ref |-> "none", returned |-> <<>>, met |-> FALSE]

\* CommNode: the retry_send threads one run starts, and what a thread holds:
\* its position, retry_count, the target, the wait_time values it slept and
\* the delivery attempts it began.
Units == {"u1", "u2"}
NoUnit == [pc |-> "idle", retry_count |-> 0, to |-> <<>>, delays |-> <<>>,
           attempts |-> 0]
\* CommNode: Python's None where an address is expected.
None == <<"None">>
\* CommNode: send_initial_messages has not begun; idx is its place in the
\* address book.
NoCaller == [pc |-> "idle", idx |-> 1]
\* CommNode.__init__ lines 30-34: the configured peers' addresses, read from
\* addresses.json.
AddressBook == [n \in {"node2", "node3"} |->
                  IF n = "node2" THEN <<HTTP, "b">> ELSE <<HTTP, "c">>]

\* CommNode: consumption values are floats; a value v is held as the integer
\* v * Scale, so that MaxChat divisions by NNODES (node_logic.py line 5) are
\* exact.
NNODES == 3
Scale == NNODES ^ MaxChat
\* node_logic.py lines 43, 53: --sc, which main refuses when it is 0.
InitialConsumption == Scale

\* __init__ (lines 25-34) and the two tasks __main__ enqueues (lines 436-437).
Init ==
    /\ peers = <<>>
    /\ task_queue = << [task_id |-> "init_1", needs_collaboration |-> FALSE],
                       [task_id |-> "collab_1", needs_collaboration |-> TRUE] >>
    /\ responses = <<>>
    /\ response_lock = NoOwner
    /\ running = TRUE
    /\ now = 0
    /\ pc = [t \in Threads |->
               IF t = "worker" THEN "w_loop"
               ELSE IF t = "main" THEN "m_run" ELSE "h_idle"]
    /\ req = [h \in Handlers |-> NoReq]
    /\ reply = NoReply
    /\ rm = [t \in Threads |-> NoRm]
    /\ bc = [t \in Broadcasters |-> NoBc]
    /\ wk = NoWk
    /\ sent = {}
    /\ recorded = <<>>
    /\ results = <<>>
    /\ nreq = 0
    /\ add_failed = {}
    /\ enqueued = task_queue
    /\ cn_running = TRUE
    /\ peers_addresses = AddressBook
    /\ unit = [u \in Units |-> NoUnit]
    /\ caller = NoCaller
    /\ self_consumption = InitialConsumption
    /\ peers_data = [n \in DOMAIN AddressBook |-> InitialConsumption]
    /\ timers = <<>>
    /\ nchat = 0

\* The process is alive until shutdown's sys.exit (lines 43-44).
Alive == pc["main"] # "m_exit"

\* The threaded Flask server (line 212-213) hands an arriving request to a
\* fresh handler thread.  The handler threads are interchangeable, so a
\* request goes to the first one that is free.
Accepts(h) ==
    /\ Alive /\ pc[h] = "h_idle" /\ nreq < MaxReq
    /\ h # "h1" => pc["h1"] # "h_idle"

(* ======================= Peer registry (lines 55-81) =================== *)

\* The status-probe outcomes of add_peer (lines 62-74): 200, another status,
\* or an exception (connection refused, timeout after 5 s).
ProbeOutcomes == {"200", "status", "exception"}

\* Route /add_peer and add_peer lines 57-60: normalise, then test membership.
\* Present: return True without probing (line 75).  Absent: go and probe.
add_peer_check(h) ==
    /\ Accepts(h)
    /\ \E a \in RawAddrs :
         IF InList(Normalize(a), peers)
         THEN /\ pc' = pc
              /\ req' = req
              /\ reply' = [status |-> "peer_added", addr |-> Normalize(a),
                           probe |-> "none", retry |-> FALSE]
         ELSE /\ pc' = [pc EXCEPT ![h] = "ap_probe"]
              /\ req' = [req EXCEPT ![h] = [kind |-> "add_peer", addr |-> a]]
              /\ reply' = reply
    /\ nreq' = nreq + 1
    /\ UNCHANGED <<peers, task_queue, responses, response_lock, running, now,
                   rm, bc, wk, sent, recorded, results, add_failed,
                   enqueued, cn_vars>>

\* A probe test that lets every answer through.
ProbeAdmitsAnyStatus(out) == out # "exception"

\* add_peer line 64: response.status_code == 200
ProbeAdmits(out) == out = "200"

\* add_peer lines 62-74: the probe answers; only a 200 appends.
add_peer_probe(h) ==
    /\ Alive /\ pc[h] = "ap_probe"
    /\ LET p == Normalize(req[h].addr) IN
       \E out \in ProbeOutcomes :
         /\ peers' = IF ProbeAdmits(out) THEN Append(peers, p) ELSE peers
         /\ reply' = [status |-> IF ProbeAdmits(out) THEN "peer_added"
                           ELSE "failed_to_add_peer",
                addr |-> p, probe |-> out, retry |-> p \in add_failed]
         /\ add_failed' = IF ProbeAdmits(out) THEN add_failed
                          ELSE add_failed \cup {p}
    /\ pc' = [pc EXCEPT ![h] = "h_idle"]
    /\ req' = [req EXCEPT ![h] = NoReq]
    /\ UNCHANGED <<task_queue, responses, response_lock, running, now, rm, bc,
                   wk, sent, recorded, results, nreq,
                   enqueued, cn_vars>>

\* Route /remove_peer (lines 399-410): remove_peer is called with the
\* address as given; its membership test (line 79) is the first step.
remove_peer_route(h) ==
    /\ Accepts(h)
    /\ \E a \in RawAddrs :
         /\ req' = [req EXCEPT ![h] = [kind |-> "remove_peer", addr |-> a]]
         /\ IF InList(a, peers)
            THEN /\ pc' = [pc EXCEPT ![h] = "rm_do"]
                 /\ rm' = [rm EXCEPT ![h] = [addr |-> a, ret |-> "h_rm_reply"]]
            ELSE /\ pc' = [pc EXCEPT ![h] = "h_rm_reply"]
                 /\ rm' = rm
    /\ nreq' = nreq + 1
    /\ UNCHANGED <<peers, task_queue, responses, response_lock, running, now,
                   reply, bc, wk, sent, recorded, results, add_failed,
                   enqueued, cn_vars>>

\* Route /remove_peer line 411: the reply carries the list as it is now.
remove_peer_reply(h) ==
    /\ Alive /\ pc[h] = "h_rm_reply"
    /\ reply' = [status |-> "peer_removed", addr |-> req[h].addr]
    /\ pc' = [pc EXCEPT ![h] = "h_idle"]
    /\ req' = [req EXCEPT ![h] = NoReq]
    /\ UNCHANGED <<peers, task_queue, responses, response_lock, running, now,
                   rm, bc, wk, sent, recorded, results, nreq, add_failed,
                   enqueued, cn_vars>>

\* remove_peer line 79 when called from send_message (line 105).
remove_peer_check(t) ==
    /\ Alive /\ pc[t] = "rm_check"
    /\ IF InList(rm[t].addr, peers)
       THEN /\ pc' = [pc EXCEPT ![t] = "rm_do"]
            /\ rm' = rm
       ELSE /\ pc' = [pc EXCEPT ![t] = rm[t].ret]
            /\ rm' = [rm EXCEPT ![t] = NoRm]
    /\ UNCHANGED <<peers, task_queue, responses, response_lock, running, now,
                   req, reply, bc, wk, sent, recorded, results, nreq,
                   add_failed,
                   enqueued, cn_vars>>

\* remove_peer line 80: self.peers.remove(peer_address), entered after the
\* membership test succeeded.
remove_peer_do(t) ==
    /\ Alive /\ pc[t] = "rm_do"
    /\ InList(rm[t].addr, peers)
    /\ peers' = ListRemove(peers, rm[t].addr)
    /\ pc' = [pc EXCEPT ![t] = rm[t].ret]
    /\ rm' = [rm EXCEPT ![t] = NoRm]
    /\ UNCHANGED <<task_queue, responses, response_lock, running, now, req,
                   reply, bc, wk, sent, recorded, results, nreq, add_failed,
                   enqueued, cn_vars>>

\* A worker loop whose except clauses end the loop.
AfterExceptionStop == "w_stopped"

\* Lines 190-192: `except Exception` logs the error and continues the loop.
AfterException == "w_loop"

\* remove_peer line 80 when another thread removed the address after the
\* test: list.remove raises ValueError.  A handler's exception becomes a 500
\* reply; the worker's is caught by worker_loop (lines 190-192); in shutdown
\* it leaves the signal handler and ends app.run, and with it the process.
remove_peer_raise(t) ==
    /\ Alive /\ pc[t] = "rm_do"
    /\ ~InList(rm[t].addr, peers)
    /\ rm' = [rm EXCEPT ![t] = NoRm]
    /\ pc' = [pc EXCEPT ![t] =
                IF t \in Handlers THEN "h_idle"
                ELSE IF t = "worker" THEN AfterException ELSE "m_exit"]
    /\ reply' = IF t \in Handlers THEN [status |-> "error_500"] ELSE reply
    /\ req' = IF t \in Handlers THEN [req EXCEPT ![t] = NoReq] ELSE req
    /\ bc' = IF t \in Broadcasters THEN [bc EXCEPT ![t] = NoBc] ELSE bc
    /\ wk' = IF t = "worker" THEN NoWk ELSE wk
    /\ results' = IF t = "worker"
                  THEN Append(results, [task_id |-> wk.task.task_id,
                                        note |-> "exception", input |-> <<>>])
                  ELSE results
    /\ UNCHANGED <<peers, task_queue, responses, response_lock, running, now,
                   sent, recorded, nreq, add_failed,
                   enqueued, cn_vars>>

(* ================== Task queue route (lines 350-361) =================== *)

\* Tasks a submitter posts to /add_task.  Only the presence of task_id is
\* tested (line 357): one carries a work_time that is no number, one a
\* work_time of 0 (no simulated work); work_time is kept as the text of
\* its JSON value.
TaskInputs == {[task_id |-> "collab_1", needs_collaboration |-> TRUE],
               [task_id |-> "simple_1", needs_collaboration |-> FALSE],
               [task_id |-> "bad_1", needs_collaboration |-> FALSE,
                work_time |-> "soon"],
               [task_id |-> "collab_1", needs_collaboration |-> TRUE,
                work_time |-> "0"]}

\* A put that goes to the head of the queue.
QueuePutFirst(q, task) == <<task>> \o q

\* Line 360: task_queue.put(task_data) on queue.Queue, which takes its own
\* lock: the task goes to the end of the queue in one step.
QueuePut(q, task) == Append(q, task)

\* Route /add_task: a body with a task_id is put on the queue.
add_task(h) ==
    /\ Accepts(h)
    /\ \E task \in TaskInputs :
         /\ task_queue' = QueuePut(task_queue, task)
         /\ enqueued' = Append(enqueued, task)
         /\ reply' = [status |-> "task_added",
                      queue_size |-> Len(task_queue) + 1]
    /\ nreq' = nreq + 1
    /\ UNCHANGED <<peers, responses, response_lock, running, now, pc, req, rm,
                   bc, wk, sent, recorded, results, add_failed,
                   cn_vars>>

\* Route /add_task lines 357-358: a body without task_id is refused.
add_task_invalid(h) ==
    /\ Accepts(h)
    /\ reply' = [status |-> "error_400"]
    /\ nreq' = nreq + 1
    /\ UNCHANGED <<peers, task_queue, responses, response_lock, running, now,
                   pc, req, rm, bc, wk, sent, recorded, results, add_failed,
                   enqueued, cn_vars>>

(* ============ Correlator: record (lines 290-303) ======================= *)

\* A lock that excludes nobody.
LockNeverHeld == TRUE

\* `with worker.response_lock` (lines 134, 140, 294): the lock is free.
LockAvailable == response_lock = NoOwner

HasKey(id) == id \in DOMAIN responses
\* self.responses.get(message_id, [])
Get(id) == IF HasKey(id) THEN responses[id] ELSE <<>>
Recorded(id) == IF id \in DOMAIN recorded THEN recorded[id] ELSE <<>>

\* handle_message, collaboration_response, lines 292-294: handler h, given
\* a message from node n that carries message_id id, takes the lock.
TakeLock(h, id, n) ==
    /\ LockAvailable
    /\ req' = [req EXCEPT ![h] = [kind |-> "collaboration_response",
                                  message_id |-> id, from_node |-> n]]
    /\ response_lock' = h
    /\ pc' = [pc EXCEPT ![h] = "cr_check"]

\* A collaboration_response arrives, from any node and with any id.
collaboration_response_lock(h) ==
    /\ Accepts(h)
    /\ \E id \in MessageIds(now), n \in NodeIds : TakeLock(h, id, n)
    /\ nreq' = nreq + 1
    /\ UNCHANGED <<peers, task_queue, responses, running, now, reply, rm, bc,
                   wk, sent, recorded, results, add_failed,
                   enqueued, cn_vars>>

\* Lines 292-293 and 303: a message without message_id is acknowledged and
\* nothing is stored.
collaboration_response_no_id(h) ==
    /\ Accepts(h)
    /\ reply' = [status |-> "received"]
    /\ nreq' = nreq + 1
    /\ UNCHANGED <<peers, task_queue, responses, response_lock, running, now,
                   pc, req, rm, bc, wk, sent, recorded, results, add_failed,
                   enqueued, cn_vars>>

\* Line 295: if message_id not in worker.responses
collaboration_response_check(h) ==
    /\ Alive /\ pc[h] = "cr_check"
    /\ pc' = [pc EXCEPT ![h] =
                IF HasKey(req[h].message_id) THEN "cr_append" ELSE "cr_create"]
    /\ UNCHANGED <<peers, task_queue, responses, response_lock, running, now,
                   req, reply, rm, bc, wk, sent, recorded, results, nreq,
                   add_failed,
                   enqueued, cn_vars>>

\* Line 296: worker.responses[message_id] = []
collaboration_response_create(h) ==
    /\ Alive /\ pc[h] = "cr_create"
    /\ responses' = (req[h].message_id :> <<>>) @@ responses
    /\ pc' = [pc EXCEPT ![h] = "cr_append"]
    /\ UNCHANGED <<peers, task_queue, response_lock, running, now, req, reply,
                   rm, bc, wk, sent, recorded, results, nreq, add_failed,
                   enqueued, cn_vars>>

\* Lines 297-303: append the entry, leave the lock, acknowledge.
collaboration_response_append(h) ==
    /\ Alive /\ pc[h] = "cr_append"
    /\ LET id == req[h].message_id
           e  == Entry(req[h].from_node, "suggestion")
       IN  /\ responses' = [responses EXCEPT ![id] = Append(@, e)]
           /\ recorded' = (id :> Append(Recorded(id), e)) @@ recorded
    /\ response_lock' = NoOwner
    /\ reply' = [status |-> "received"]
    /\ pc' = [pc EXCEPT ![h] = "h_idle"]
    /\ req' = [req EXCEPT ![h] = NoReq]
    /\ UNCHANGED <<peers, task_queue, running, now, rm, bc, wk, sent, results,
                   nreq, add_failed,
                   enqueued, cn_vars>>

(* ============ send_message / broadcast_message (lines 83-128) ========== *)

\* What requests.post gives send_message: a 200 with a JSON body (line 97),
\* another status (lines 98-101), a timeout (lines 102-106), another
\* exception (lines 107-109).
SendOutcomes == {"ok", "status", "timeout", "error"}

\* Lines 102-105: only the timeout branch of send_message calls remove_peer.
SendRemoves(out) == out = "timeout"

\* Where a broadcast goes on after the peer at idx-1: the next send, or the
\* dead-peer loop (line 124) once the copy is exhausted.
BcPc(snap, idx) == IF idx > Len(snap) THEN "b_prune" ELSE "b_send"

\* Line 116: the frame of a broadcast over a copy of the list, self.peers[:].
BcFrame(type, ret) ==
    [snap |-> peers, idx |-> 1, dead |-> <<>>, replies |-> <<>>,
     type |-> type, ret |-> ret]

\* Lines 117-121 and send_message (lines 83-109) with outcome out: one
\* delivery attempt to the next peer of the copy; a reply is collected, a
\* peer without one is noted dead; a timeout also removes the peer at once
\* (line 105).
send_message(t, out) ==
    /\ Alive /\ pc[t] = "b_send"
    /\ LET f == bc[t]
           peer == f.snap[f.idx]
       IN   /\ sent' = sent \cup {[to |-> peer, type |-> f.type,
                                 ok |-> out = "ok"]}
            /\ bc' = [bc EXCEPT ![t] =
                   [f EXCEPT !.idx = f.idx + 1,
                             !.replies = IF out = "ok" THEN Append(@, peer)
                                         ELSE @,
                             !.dead = IF out = "ok" THEN @
                                      ELSE Append(@, peer)]]
            /\ IF SendRemoves(out)
               THEN /\ pc' = [pc EXCEPT ![t] = "rm_check"]
                    /\ rm' = [rm EXCEPT ![t] =
                          [addr |-> peer, ret |-> BcPc(f.snap, f.idx + 1)]]
               ELSE /\ pc' = [pc EXCEPT ![t] = BcPc(f.snap, f.idx + 1)]
                    /\ rm' = rm
    /\ UNCHANGED <<peers, task_queue, responses, response_lock, running, now,
                   req, reply, wk, recorded, results, nreq, add_failed,
                   enqueued, cn_vars>>

\* Lines 116-121: the loop over the copy, whatever the outcome of the send.
broadcast_send(t) == \E out \in SendOutcomes : send_message(t, out)

\* Lines 124-126: the next dead peer, if still listed, is removed.  The test
\* of line 125 and the one remove_peer repeats (line 79) are one step: a
\* thread that interleaves between them changes nothing the second does not
\* see.
broadcast_prune(t) ==
    /\ Alive /\ pc[t] = "b_prune" /\ bc[t].dead # <<>>
    /\ LET peer == Head(bc[t].dead) IN
         /\ bc' = [bc EXCEPT ![t].dead = Tail(@)]
         /\ IF InList(peer, peers)
            THEN /\ pc' = [pc EXCEPT ![t] = "rm_do"]
                 /\ rm' = [rm EXCEPT ![t] = [addr |-> peer, ret |-> "b_prune"]]
            ELSE /\ pc' = pc
                 /\ rm' = rm
    /\ UNCHANGED <<peers, task_queue, responses, response_lock, running, now,
                   req, reply, wk, sent, recorded, results, nreq, add_failed,
                   enqueued, cn_vars>>

\* Line 128: return responses.
broadcast_return(t) ==
    /\ Alive /\ pc[t] = "b_prune" /\ bc[t].dead = <<>>
    /\ pc' = [pc EXCEPT ![t] = bc[t].ret]
    /\ bc' = [bc EXCEPT ![t] = NoBc]
    /\ UNCHANGED <<peers, task_queue, responses, response_lock, running, now,
                   req, reply, rm, wk, sent, recorded, results, nreq,
                   add_failed,
                   enqueued, cn_vars>>

(* ============ worker_loop / process_task (lines 143-193) =============== *)

\* What worker_loop logs for a finished task (line 186).
Result(task, note, input) ==
    [task_id |-> task.task_id, note |-> note, input |-> input]

\* A loop test that goes on while tasks are queued.
LoopGoesOnWhileTasks == running \/ task_queue # <<>>

\* Line 181: while self.running
LoopGoesOn == running

\* Line 181: the loop test finds the flag set; the worker goes on to
\* task_queue.get(timeout=1) and blocks there until a task is queued or the
\* second is over.
worker_loop_test ==
    /\ Alive /\ pc["worker"] = "w_loop" /\ LoopGoesOn
    /\ pc' = [pc EXCEPT !["worker"] = "w_get"]
    /\ UNCHANGED <<peers, task_queue, responses, response_lock, running, now,
                   req, reply, rm, bc, wk, sent, recorded, results, nreq,
                   add_failed,
                   enqueued, cn_vars>>

\* Lines 184-185: a task is taken off the queue.
worker_loop_get ==
    /\ Alive /\ pc["worker"] = "w_get"
    /\ task_queue # <<>>
    /\ wk' = [NoWk EXCEPT !.task = Head(task_queue)]
    /\ task_queue' = Tail(task_queue)
    /\ pc' = [pc EXCEPT !["worker"] = "w_work"]
    /\ UNCHANGED <<peers, responses, response_lock, running, now, req, reply,
                   rm, bc, sent, recorded, results, nreq, add_failed,
                   enqueued, cn_vars>>

\* Lines 184, 188-189: get(timeout=1) on a queue that stayed empty raises
\* Empty, and the loop goes to its test.
worker_loop_empty ==
    /\ Alive /\ pc["worker"] = "w_get"
    /\ task_queue = <<>>
    /\ pc' = [pc EXCEPT !["worker"] = "w_loop"]
    /\ UNCHANGED <<peers, task_queue, responses, response_lock, running, now,
                   req, reply, rm, bc, wk, sent, recorded, results, nreq,
                   add_failed,
                   enqueued, cn_vars>>

\* Lines 181, 193: the loop ends once running is cleared.
worker_loop_stop ==
    /\ Alive /\ pc["worker"] = "w_loop" /\ ~LoopGoesOn
    /\ pc' = [pc EXCEPT !["worker"] = "w_stopped"]
    /\ UNCHANGED <<peers, task_queue, responses, response_lock, running, now,
                   req, reply, rm, bc, wk, sent, recorded, results, nreq,
                   add_failed,
                   enqueued, cn_vars>>

\* Lines 149-150: time.sleep(work_time) raises TypeError for a work_time
\* that is no number.
Raises(task) == "work_time" \in DOMAIN task /\ task.work_time = "soon"

\* Lines 149-150 and 190-192: the exception of process_task is caught by
\* worker_loop and logged; no result is returned.
process_task_raise ==
    /\ Alive /\ pc["worker"] = "w_work"
    /\ Raises(wk.task)
    /\ results' = Append(results, Result(wk.task, "exception", <<>>))
    /\ wk' = NoWk
    /\ pc' = [pc EXCEPT !["worker"] = AfterException]
    /\ UNCHANGED <<peers, task_queue, responses, response_lock, running, now,
                   req, reply, rm, bc, sent, recorded, nreq, add_failed,
                   enqueued, cn_vars>>

\* Lines 149-150: the task asks for no simulated work (work_time 0); the
\* default is a sleep of 2 seconds.
Quick(task) == "work_time" \in DOMAIN task /\ task.work_time = "0"

\* Lines 149-155: the seconds int(time.time()) can show when the id of the
\* task is made: after the sleep of the simulated work a second later than
\* the one the last id was made in; without it, possibly the same one.
MintTimes(task) ==
    {t \in now..(now + 1) :
        /\ 1 <= t /\ t <= MaxNow
        /\ t = now => Quick(task)}

\* A test that sends every task to its peers.
NeedsCollaborationAlways(task) == TRUE

\* Line 154: task_data.get('needs_collaboration')
NeedsCollaboration(task) == task.needs_collaboration

\* Lines 145-154 and 176 for a task that needs no collaboration: the work is
\* done and the result returned and logged.
process_task_plain ==
    /\ Alive /\ pc["worker"] = "w_work"
    /\ ~Raises(wk.task)
    /\ ~NeedsCollaboration(wk.task)
    /\ results' = Append(results, Result(wk.task, "plain", <<>>))
    /\ wk' = NoWk
    /\ pc' = [pc EXCEPT !["worker"] = "w_loop"]
    /\ UNCHANGED <<peers, task_queue, responses, response_lock, running, now,
                   req, reply, rm, bc, sent, recorded, nreq, add_failed,
                   enqueued, cn_vars>>

\* Lines 145-165 and 116: the work is done, the id minted from the clock and
\* the broadcast of the collaboration_request begun on a copy of the list.
process_task_collaborate ==
    /\ Alive /\ pc["worker"] = "w_work"
    /\ ~Raises(wk.task)
    /\ NeedsCollaboration(wk.task)
    /\ \E t \in MintTimes(wk.task) :
         /\ now' = t
         /\ wk' = [wk EXCEPT !.message_id = MessageId(wk.task.task_id, t),
                             !.asked = Len(peers)]
    /\ bc' = [bc EXCEPT !["worker"] =
                 BcFrame("collaboration_request", "w_if_peers")]
    /\ pc' = [pc EXCEPT !["worker"] = BcPc(peers, 1)]
    /\ UNCHANGED <<peers, task_queue, responses, response_lock, running, req,
                   reply, rm, sent, recorded, results, nreq, add_failed,
                   enqueued, cn_vars>>

\* Lines 168 and 176: with no peer listed the result is returned as it is.
process_task_no_peers ==
    /\ Alive /\ pc["worker"] = "w_if_peers"
    /\ peers = <<>>
    /\ results' = Append(results, Result(wk.task, "none", <<>>))
    /\ wk' = NoWk
    /\ pc' = [pc EXCEPT !["worker"] = "w_loop"]
    /\ UNCHANGED <<peers, task_queue, responses, response_lock, running, now,
                   req, reply, rm, bc, sent, recorded, nreq, add_failed,
                   enqueued, cn_vars>>

\* Line 168: if self.peers
process_task_if_peers ==
    /\ Alive /\ pc["worker"] = "w_if_peers"
    /\ peers # <<>>
    /\ pc' = [pc EXCEPT !["worker"] = "w_len"]
    /\ UNCHANGED <<peers, task_queue, responses, response_lock, running, now,
                   req, reply, rm, bc, wk, sent, recorded, results, nreq,
                   add_failed,
                   enqueued, cn_vars>>

\* Lines 169-170 and 132: len(self.peers) is read for the call, the wait
\* starts its clock.
process_task_len ==
    /\ Alive /\ pc["worker"] = "w_len"
    /\ wk' = [wk EXCEPT !.expected = Len(peers), !.elapsed = 0]
    /\ pc' = [pc EXCEPT !["worker"] = "w_wait"]
    /\ UNCHANGED <<peers, task_queue, responses, response_lock, running, now,
                   req, reply, rm, bc, sent, recorded, results, nreq,
                   add_failed,
                   enqueued, cn_vars>>

(* ============ Correlator: wait_for_responses (lines 130-141) =========== *)

\* A loop test that does not read the clock.
WaitGoesOnNoTimeout == running

\* Line 133: time.time() - start_time < timeout and self.running
WaitGoesOn == wk.elapsed < TimeoutPolls /\ running

\* A quorum of one, whatever the expected count.
QuorumMetAtOne(id, n) == HasKey(id) /\ Len(responses[id]) >= 1

\* Lines 135-136: the id has an entry with at least expected_count responses.
QuorumMet(id, n) == HasKey(id) /\ Len(responses[id]) >= n

\* Lines 133-137: a poll that finds the quorum returns the list itself.
wait_for_responses_quorum ==
    /\ Alive /\ pc["worker"] = "w_wait"
    /\ WaitGoesOn /\ LockAvailable
    /\ QuorumMet(wk.message_id, wk.expected)
    /\ wk' = [wk EXCEPT !.ref = "list", !.met = TRUE,
                        !.returned = responses[wk.message_id]]
    /\ pc' = [pc EXCEPT !["worker"] = "w_result"]
    /\ UNCHANGED <<peers, task_queue, responses, response_lock, running, now,
                   req, reply, rm, bc, sent, recorded, results, nreq,
                   add_failed,
                   enqueued, cn_vars>>

\* Lines 133-138: a poll that does not find it sleeps one interval.
wait_for_responses_poll ==
    /\ Alive /\ pc["worker"] = "w_wait"
    /\ WaitGoesOn /\ LockAvailable
    /\ ~QuorumMet(wk.message_id, wk.expected)
    /\ wk' = [wk EXCEPT !.elapsed = @ + 1]
    /\ UNCHANGED <<peers, task_queue, responses, response_lock, running, now,
                   pc, req, reply, rm, bc, sent, recorded, results, nreq,
                   add_failed,
                   enqueued, cn_vars>>

\* Lines 140-141: the loop is over; whatever the id has is returned, a fresh
\* empty list when it has no entry.
wait_for_responses_timeout ==
    /\ Alive /\ pc["worker"] = "w_wait"
    /\ ~WaitGoesOn /\ LockAvailable
    /\ wk' = [wk EXCEPT !.ref = IF HasKey(wk.message_id) THEN "list"
                                ELSE "default",
                        !.returned = Get(wk.message_id)]
    /\ pc' = [pc EXCEPT !["worker"] = "w_result"]
    /\ UNCHANGED <<peers, task_queue, responses, response_lock, running, now,
                   req, reply, rm, bc, sent, recorded, results, nreq,
                   add_failed,
                   enqueued, cn_vars>>

\* Lines 171-176: the result is built from the returned list, which is the
\* correlator's own list (read as it is now) unless the default was returned.
process_task_result ==
    /\ Alive /\ pc["worker"] = "w_result"
    /\ LET peer_responses == IF wk.ref = "list" THEN responses[wk.message_id]
                             ELSE <<>>
       IN results' = Append(results,
             Result(wk.task,
                    IF peer_responses # <<>> THEN "input"
                    ELSE "no_peer_responses",
                    peer_responses))
    /\ wk' = NoWk
    /\ pc' = [pc EXCEPT !["worker"] = "w_loop"]
    /\ UNCHANGED <<peers, task_queue, responses, response_lock, running, now,
                   req, reply, rm, bc, sent, recorded, nreq, add_failed,
                   enqueued, cn_vars>>

(* ======================= shutdown (lines 219-231) ====================== *)

\* Lines 222-225: the flag is cleared and the node_shutdown broadcast begun.
shutdown ==
    /\ Alive /\ pc["main"] = "m_run" /\ nreq < MaxReq
    /\ running' = FALSE
    /\ bc' = [bc EXCEPT !["main"] = BcFrame("node_shutdown", "m_join")]
    /\ pc' = [pc EXCEPT !["main"] = BcPc(peers, 1)]
    /\ nreq' = nreq + 1
    /\ UNCHANGED <<peers, task_queue, responses, response_lock, now, req,
                   reply, rm, wk, sent, recorded, results, add_failed,
                   enqueued, cn_vars>>

\* Lines 228-231 and 44: the worker is joined for at most 5 s, then the
\* signal handler exits the process.
shutdown_join ==
    /\ pc["main"] = "m_join"
    /\ pc' = [pc EXCEPT !["main"] = "m_exit"]
    /\ UNCHANGED <<peers, task_queue, responses, response_lock, running, now,
                   req, reply, rm, bc, wk, sent, recorded, results, nreq,
                   add_failed,
                   enqueued, cn_vars>>

(* ============================ the node ================================= *)

HandlerStep(h) ==
    \/ add_peer_check(h)
    \/ add_peer_probe(h)
    \/ remove_peer_route(h)
    \/ remove_peer_reply(h)
    \/ add_task(h)
    \/ add_task_invalid(h)
    \/ collaboration_response_lock(h)
    \/ collaboration_response_no_id(h)
    \/ collaboration_response_check(h)
    \/ collaboration_response_create(h)
    \/ collaboration_response_append(h)

WorkerStep ==
    \/ worker_loop_test
    \/ worker_loop_get
    \/ process_task_raise
    \/ worker_loop_empty
    \/ worker_loop_stop
    \/ process_task_plain
    \/ process_task_collaborate
    \/ process_task_no_peers
    \/ process_task_if_peers
    \/ process_task_len
    \/ wait_for_responses_quorum
    \/ wait_for_responses_poll
    \/ wait_for_responses_timeout
    \/ process_task_result

Next ==
    \/ \E h \in Handlers : HandlerStep(h)
    \/ WorkerStep
    \/ shutdown
    \/ shutdown_join
    \/ \E t \in Broadcasters :
         broadcast_send(t) \/ broadcast_prune(t) \/ broadcast_return(t)
    \/ \E t \in Threads :
         remove_peer_check(t) \/ remove_peer_do(t) \/ remove_peer_raise(t)

Spec == Init /\ [][Next]_vars

(* ========= CommNode: send_message_with_retry (comm_node.py 79-116) ===== *)

Min(a, b) == IF a < b THEN a ELSE b

\* Line 110: wait_time = min(2 ** min(retry_count - 1, 3), 10)
WaitTime(retry_count) == Min(2 ^ Min(retry_count - 1, 3), 10)

\* A loop test that does not read the flag.
RetryGoesOnForever == TRUE

\* A loop test with a cap on the retries.
RetryGoesOnCapped == cn_running /\ \A u \in Units : unit[u].retry_count < 3

\* Line 92: while self.running
RetryGoesOn == cn_running

\* Lines 116, 91: a thread is started for one message to one known peer;
\* retry_count = 0.
send_message_with_retry(u) ==
    /\ unit[u].pc = "idle"
    /\ \E n \in DOMAIN peers_addresses :
         unit' = [unit EXCEPT ![u] =
                    [NoUnit EXCEPT !.pc = "loop", !.to = peers_addresses[n]]]
    /\ UNCHANGED <<dw_vars, chat_vars, cn_running, peers_addresses, caller>>

\* Line 92: the loop test finds the flag set.
retry_send_test(u) ==
    /\ unit[u].pc = "loop" /\ RetryGoesOn
    /\ unit' = [unit EXCEPT ![u].pc = "try"]
    /\ UNCHANGED <<dw_vars, chat_vars, cn_running, peers_addresses, caller>>

\* Lines 93-95: a delivery attempt begins.
retry_send_attempt(u) ==
    /\ unit[u].pc = "try"
    /\ unit' = [unit EXCEPT ![u].pc = "post", ![u].attempts = @ + 1]
    /\ UNCHANGED <<dw_vars, chat_vars, cn_running, peers_addresses, caller>>

\* Lines 92, 113: the flag is cleared, the thread returns False.
retry_send_stop(u) ==
    /\ unit[u].pc = "loop" /\ ~RetryGoesOn
    /\ unit' = [unit EXCEPT ![u].pc = "gave_up"]
    /\ UNCHANGED <<dw_vars, chat_vars, cn_running, peers_addresses, caller>>

\* Lines 96-99: status 200, the thread returns True.
retry_send_delivered(u) ==
    /\ unit[u].pc = "post"
    /\ unit[u].to # None
    /\ unit' = [unit EXCEPT ![u].pc = "delivered"]
    /\ UNCHANGED <<dw_vars, chat_vars, cn_running, peers_addresses, caller>>

\* Lines 100-111: another status or an exception counts a retry, the wait
\* is computed and slept.
retry_send_failed(u) ==
    /\ unit[u].pc = "post"
    /\ unit[u].retry_count < MaxRetries
    /\ unit' = [unit EXCEPT
                  ![u].pc = "sleep",
                  ![u].retry_count = @ + 1,
                  ![u].delays = Append(@, WaitTime(unit[u].retry_count + 1))]
    /\ UNCHANGED <<dw_vars, chat_vars, cn_running, peers_addresses, caller>>

\* Line 111: the sleep is over, back to the loop test.
retry_send_wake(u) ==
    /\ unit[u].pc = "sleep"
    /\ unit' = [unit EXCEPT ![u].pc = "loop"]
    /\ UNCHANGED <<dw_vars, chat_vars, cn_running, peers_addresses, caller>>

\* CommNode.shutdown, lines 164-169.
cn_shutdown ==
    /\ cn_running
    /\ cn_running' = FALSE
    /\ UNCHANGED <<dw_vars, chat_vars, peers_addresses, unit, caller>>

\* A caller that joins the thread it started.
CallerWaitsForUnit(u) == unit[u].pc \in {"delivered", "gave_up"}

\* Line 116: Thread(target=retry_send, daemon=True).start() is not joined;
\* send_message_with_retry returns whatever thread u is doing.
CallerResumes(u) == TRUE

\* send_initial_messages (lines 122-126) visits the address book in the
\* order of the dict, and each call starts a thread of its own.
BookOrder == <<"node2", "node3">>
UnitOrder == <<"u1", "u2">>

\* start, line 158: the timer fires and send_initial_messages begins.
send_initial_messages_begin ==
    /\ caller.pc = "idle"
    /\ caller' = [caller EXCEPT !.pc = "call"]
    /\ UNCHANGED <<dw_vars, chat_vars, cn_running, peers_addresses, unit>>

\* Lines 125-126, 118-120 and 114-116: send_message for the next address
\* starts its retry_send thread.
send_initial_messages_call ==
    /\ caller.pc = "call" /\ caller.idx <= Len(BookOrder)
    /\ unit' = [unit EXCEPT ![UnitOrder[caller.idx]] =
                  [NoUnit EXCEPT !.pc = "loop",
                      !.to = peers_addresses[BookOrder[caller.idx]]]]
    /\ caller' = [caller EXCEPT !.pc = "started"]
    /\ UNCHANGED <<dw_vars, chat_vars, cn_running, peers_addresses>>

\* Lines 116, 120: the call returns and the loop goes to the next address.
send_initial_messages_return ==
    /\ caller.pc = "started" /\ CallerResumes(UnitOrder[caller.idx])
    /\ caller' = [caller EXCEPT !.pc = "call", !.idx = @ + 1]
    /\ UNCHANGED <<dw_vars, chat_vars, cn_running, peers_addresses, unit>>

\* Line 125: the loop over the address book is over.
send_initial_messages_end ==
    /\ caller.pc = "call" /\ caller.idx > Len(BookOrder)
    /\ caller' = [caller EXCEPT !.pc = "done"]
    /\ UNCHANGED <<dw_vars, chat_vars, cn_running, peers_addresses, unit>>

CallerStep ==
    \/ send_initial_messages_begin
    \/ send_initial_messages_call
    \/ send_initial_messages_return
    \/ send_initial_messages_end

UnitStep(u) ==
    \/ retry_send_test(u)
    \/ retry_send_attempt(u)
    \/ retry_send_stop(u)
    \/ retry_send_delivered(u)
    \/ retry_send_failed(u)
    \/ retry_send_wake(u)

RetryNext ==
    \/ \E u \in Units : send_message_with_retry(u)
    \/ \E u \in Units : UnitStep(u)
    \/ cn_shutdown

\* The retrying sender alone.
RetrySpec == Init /\ [][RetryNext]_vars

\* Every started thread is scheduled, a post ends (timeout=5, line 95) and a
\* sleep ends.
FairRetrySpec == RetrySpec /\ \A u \in Units : WF_vars(UnitStep(u))

CallerNext ==
    \/ CallerStep
    \/ \E u \in Units : UnitStep(u)
    \/ cn_shutdown

\* CommNode sending its initial messages.  Only the caller is sure to be
\* scheduled: a retry thread may stay in a post or a sleep for any time.
CallerSpec == Init /\ [][CallerNext]_vars /\ WF_vars(CallerStep)

(* ========= CommNode: handle_chat_message (comm_node.py 128-147) ======== *)

\* _handle_message_route line 60: from_node is whatever the request names,
\* a configured peer or not.
Senders == DOMAIN AddressBook \cup {"node9"}

\* Line 64: message is a string holding "online", another string, a JSON
\* float or a JSON integer (isinstance(5, float) is False).
ChatMessages ==
    {[is |-> "str", online |-> b, value |-> 0] : b \in BOOLEAN}
    \cup {[is |-> t, online |-> FALSE, value |-> v] :
            t \in {"float", "int"}, v \in {0, 2 * Scale}}

\* Line 132: dict.get answers None for a node id the book does not have.
from_address(from_node) ==
    IF from_node \in DOMAIN peers_addresses THEN peers_addresses[from_node]
    ELSE None

RECURSIVE SumOver(_, _)
SumOver(f, S) ==
    IF S = {} THEN 0
    ELSE LET n == CHOOSE x \in S : TRUE IN f[n] + SumOver(f, S \ {n})

\* node_logic.py lines 8-16, the callback main sets (line 58):
\* (NNODES - len) / NNODES * self_consumption + 1 / NNODES * sum.
compute_average(sc, average_estimations) ==
    ((NNODES - Cardinality(DOMAIN average_estimations)) * sc
       + SumOver(average_estimations, DOMAIN average_estimations)) \div NNODES

\* Line 143: self.peers_data[from_node] = message
SetItem(d, k, v) ==
    [n \in DOMAIN d \cup {k} |-> IF n = k THEN v ELSE d[n]]

\* Lines 118-120, 114-116: send_message starts a retry_send thread for the
\* address it is given.
StartUnit(u, to) ==
    /\ unit[u].pc = "idle"
    /\ unit' = [unit EXCEPT ![u] = [NoUnit EXCEPT !.pc = "loop", !.to = to]]

\* Lines 134, 138-140: an "online" string from a node the book has.
handle_chat_message_online ==
    /\ nchat < MaxChat
    /\ \E n \in Senders, m \in ChatMessages :
         /\ m.is = "str" /\ m.online
         /\ from_address(n) # None
         /\ \E u \in Units : StartUnit(u, from_address(n))
    /\ self_consumption' = compute_average(self_consumption, peers_data)
    /\ nchat' = nchat + 1
    /\ UNCHANGED <<dw_vars, cn_running, peers_addresses, caller, peers_data,
                   timers>>

\* Lines 134-137: an "online" string from a node the book does not have.
handle_chat_message_unknown ==
    /\ nchat < MaxChat
    /\ \E n \in Senders, m \in ChatMessages :
         /\ m.is = "str" /\ m.online
         /\ from_address(n) = None
    /\ nchat' = nchat + 1
    /\ UNCHANGED <<dw_vars, cn_running, peers_addresses, unit, caller,
                   peers_data, self_consumption, timers>>

\* Lines 142-147: a float from any node is stored under the node's id, the
\* callback runs on the new values and a Timer is started for from_address.
handle_chat_message_float ==
    /\ nchat < MaxChat
    /\ \E n \in Senders, m \in ChatMessages :
         /\ m.is = "float"
         /\ peers_data' = SetItem(peers_data, n, m.value)
         /\ timers' = Append(timers, from_address(n))
    /\ self_consumption' = compute_average(self_consumption, peers_data')
    /\ nchat' = nchat + 1
    /\ UNCHANGED <<dw_vars, cn_running, peers_addresses, unit, caller>>

\* Lines 134, 142: any other message takes neither branch.
handle_chat_message_other ==
    /\ nchat < MaxChat
    /\ \E n \in Senders, m \in ChatMessages :
         \/ m.is = "str" /\ ~m.online
         \/ m.is = "int"
    /\ nchat' = nchat + 1
    /\ UNCHANGED <<dw_vars, cn_running, peers_addresses, unit, caller,
                   peers_data, self_consumption, timers>>

\* Lines 146-147: two seconds later the Timer's thread calls send_message.
timer_fire ==
    /\ timers # <<>>
    /\ \E u \in Units : StartUnit(u, Head(timers))
    /\ timers' = Tail(timers)
    /\ UNCHANGED <<dw_vars, cn_running, peers_addresses, caller, peers_data,
                   self_consumption, nchat>>

ChatNext ==
    \/ handle_chat_message_online
    \/ handle_chat_message_unknown
    \/ handle_chat_message_float
    \/ handle_chat_message_other
    \/ timer_fire
    \/ \E u \in Units : UnitStep(u)
    \/ cn_shutdown

\* A CommNode receiving chat messages.
ChatSpec == Init /\ [][ChatNext]_vars

(* ===== one collaborative task with three listed peers, one of them ===== *)
(* ===== timing out (process_task, lines 143-176)                    ===== *)

\* The addresses the nodes A and B are listed under, and the address of the
\* third peer C.
NodeAddr == [n \in NodeIds |-> IF n = "A" THEN <<HTTP, "a">> ELSE <<HTTP, "b">>]
AddrC == <<HTTP, "c">>

\* The registry lists A, B and C; the queue holds one collaborative task.
ScenInit ==
    /\ peers = <<NodeAddr["A"], NodeAddr["B"], AddrC>>
    /\ task_queue = << [task_id |-> "collab_1", needs_collaboration |-> TRUE] >>
    /\ responses = <<>>
    /\ response_lock = NoOwner
    /\ running = TRUE
    /\ now = 0
    /\ pc = [t \in Threads |->
               IF t = "worker" THEN "w_loop"
               ELSE IF t = "main" THEN "m_run" ELSE "h_idle"]
    /\ req = [h \in Handlers |-> NoReq]
    /\ reply = NoReply
    /\ rm = [t \in Threads |-> NoRm]
    /\ bc = [t \in Broadcasters |-> NoBc]
    /\ wk = NoWk
    /\ sent = {}
    /\ recorded = <<>>
    /\ results = <<>>
    /\ nreq = 0
    /\ add_failed = {}
    /\ enqueued = task_queue
    /\ cn_running = TRUE
    /\ peers_addresses = AddressBook
    /\ unit = [u \in Units |-> NoUnit]
    /\ caller = NoCaller
    /\ self_consumption = InitialConsumption
    /\ peers_data = [n \in DOMAIN AddressBook |-> InitialConsumption]
    /\ timers = <<>>
    /\ nchat = 0

\* The request reaches A and B (status 200) and times out at C.
ScenOutcome(peer) == IF peer = AddrC THEN "timeout" ELSE "ok"

ScenSend ==
    /\ pc["worker"] = "b_send"
    /\ send_message("worker",
                    ScenOutcome(bc["worker"].snap[bc["worker"].idx]))

\* Node n has answered, or its answer is with a handler.
Answered(n) ==
    \/ \E i \in 1..Len(Recorded(wk.message_id)) :
          Recorded(wk.message_id)[i].from_node = n
    \/ \E h \in Handlers : req[h] # NoReq /\ req[h].from_node = n

\* The request to node n is in flight or has been delivered.
Requested(n) ==
    \/ /\ pc["worker"] = "b_send"
       /\ bc["worker"].snap[bc["worker"].idx] = NodeAddr[n]
    \/ [to |-> NodeAddr[n], type |-> "collaboration_request",
        ok |-> TRUE] \in sent

\* A node pushes its collaboration_response, once, while it handles the
\* request (handle_message, lines 253-288 on the peer, 290-303 here); the
\* handler thread here may run at once or later.
ScenAnswer(h) ==
    /\ Alive /\ pc[h] = "h_idle"
    /\ h # "h1" => pc["h1"] # "h_idle"
    /\ \E n \in NodeIds :
         /\ Requested(n)
         /\ ~Answered(n)
         /\ TakeLock(h, wk.message_id, n)
    /\ UNCHANGED <<peers, task_queue, responses, running, now, reply, rm, bc,
                   wk, sent, recorded, results, nreq, add_failed,
                   enqueued, cn_vars>>

\* A and B answer within the timeout: the wait does not run out before
\* both answers are recorded.
ScenTimeout ==
    /\ \A n \in NodeIds :
         \E i \in 1..Len(Recorded(wk.message_id)) :
            Recorded(wk.message_id)[i].from_node = n
    /\ wait_for_responses_timeout

\* A CommNode sends to C by send_message_with_retry; C never answers 200.
ScenRetry(u) ==
    \/ /\ send_message_with_retry(u)
       /\ unit'[u].to = AddrC
    \/ retry_send_test(u)
    \/ retry_send_attempt(u)
    \/ retry_send_stop(u)
    \/ retry_send_failed(u)
    \/ retry_send_wake(u)

ScenNext ==
    \/ worker_loop_test
    \/ worker_loop_get
    \/ worker_loop_empty
    \/ process_task_collaborate
    \/ ScenSend
    \/ remove_peer_check("worker")
    \/ remove_peer_do("worker")
    \/ broadcast_prune("worker")
    \/ broadcast_return("worker")
    \/ process_task_if_peers
    \/ process_task_len
    \/ wait_for_responses_quorum
    \/ wait_for_responses_poll
    \/ ScenTimeout
    \/ process_task_result
    \/ \E h \in Handlers :
         \/ ScenAnswer(h)
         \/ collaboration_response_check(h)
         \/ collaboration_response_create(h)
         \/ collaboration_response_append(h)
    \/ ScenRetry("u1")
    \/ cn_shutdown

ScenSpec == ScenInit /\ [][ScenNext]_vars

(* ========== the task queue and the worker loop (lines 178-193) ========= *)

\* The steps of the worker thread, in worker_loop and in what it calls.
WorkerThread ==
    \/ WorkerStep
    \/ broadcast_send("worker")
    \/ broadcast_prune("worker")
    \/ broadcast_return("worker")
    \/ remove_peer_check("worker")
    \/ remove_peer_do("worker")
    \/ remove_peer_raise("worker")

\* Submitters post tasks to a node that has no peers listed; the node is
\* stopped at any time.
TaskNext ==
    \/ \E h \in Handlers : add_task(h) \/ add_task_invalid(h)
    \/ worker_loop_test
    \/ worker_loop_get
    \/ worker_loop_empty
    \/ worker_loop_stop
    \/ process_task_raise
    \/ process_task_plain
    \/ process_task_collaborate
    \/ process_task_no_peers
    \/ broadcast_return("worker")
    \/ shutdown
    \/ broadcast_return("main")
    \/ shutdown_join

\* The worker thread is scheduled as long as the process lives.
TaskSpec == Init /\ [][TaskNext]_vars /\ WF_vars(WorkerThread)

(* ======= node_shutdown notices (handle_message, lines 305-314) ========= *)

\* Nodes that announce their shutdown: the address they are listed under
\* and the node_id their notice carries (shutdown, line 225).  A node_id is
\* a free command-line string: unrelated to the address ("node1" at
\* http://localhost:5000, setup_test_script.py lines 19-20), the host part of
\* the address, or a string that occurs in every address.
Announcers ==
    { [node_id |-> "node1", addr |-> <<HTTP, "a">>],
      [node_id |-> "a", addr |-> <<HTTP, "a">>],
      [node_id |-> HTTP, addr |-> <<HTTP, "b">>] }

\* Line 309: shutting_down_node in peer, a substring test on the address
\* (here: the id is one of the parts the address is made of).
IdIn(id, peer) == \E i \in 1..Len(peer) : peer[i] = id

\* Line 308-309: the listed addresses the notice is taken to name.
PeersToRemove(id) == SelectSeq(peers, LAMBDA peer : IdIn(id, peer))

\* Lines 305-309: a node_shutdown notice arrives and peers_to_remove is
\* built from the list as it is.
node_shutdown_scan(h) ==
    /\ Accepts(h)
    /\ \E n \in Announcers :
         req' = [req EXCEPT ![h] =
                   [kind |-> "node_shutdown", node_id |-> n.node_id,
                    from_addr |-> n.addr, before |-> peers,
                    todo |-> PeersToRemove(n.node_id)]]
    /\ pc' = [pc EXCEPT ![h] = "ns_next"]
    /\ nreq' = nreq + 1
    /\ UNCHANGED <<peers, task_queue, responses, response_lock, running, now,
                   reply, rm, bc, wk, sent, recorded, results, add_failed,
                   enqueued, cn_vars>>

\* Lines 310-311: remove_peer is called for the next address to remove.
node_shutdown_next(h) ==
    /\ Alive /\ pc[h] = "ns_next" /\ req[h].todo # <<>>
    /\ rm' = [rm EXCEPT ![h] = [addr |-> Head(req[h].todo), ret |-> "ns_next"]]
    /\ req' = [req EXCEPT ![h].todo = Tail(@)]
    /\ pc' = [pc EXCEPT ![h] = "rm_check"]
    /\ UNCHANGED <<peers, task_queue, responses, response_lock, running, now,
                   reply, bc, wk, sent, recorded, results, nreq, add_failed,
                   enqueued, cn_vars>>

\* Line 313: the notice is acknowledged.
node_shutdown_reply(h) ==
    /\ Alive /\ pc[h] = "ns_next" /\ req[h].todo = <<>>
    /\ reply' = [status |-> "acknowledged", node_id |-> req[h].node_id,
                 from_addr |-> req[h].from_addr, before |-> req[h].before]
    /\ pc' = [pc EXCEPT ![h] = "h_idle"]
    /\ req' = [req EXCEPT ![h] = NoReq]
    /\ UNCHANGED <<peers, task_queue, responses, response_lock, running, now,
                   rm, bc, wk, sent, recorded, results, nreq, add_failed,
                   enqueued, cn_vars>>

\* Registries the node can hold when a notice arrives (after add_peer of
\* one or of both addresses, in either order).
Registries ==
    { << <<HTTP, "a">> >>,
      << <<HTTP, "a">>, <<HTTP, "b">> >>,
      << <<HTTP, "b">>, <<HTTP, "a">> >> }

NsInit ==
    /\ peers \in Registries
    /\ task_queue = <<>>
    /\ responses = <<>>
    /\ response_lock = NoOwner
    /\ running = TRUE
    /\ now = 0
    /\ pc = [t \in Threads |->
               IF t = "worker" THEN "w_loop"
               ELSE IF t = "main" THEN "m_run" ELSE "h_idle"]
    /\ req = [h \in Handlers |-> NoReq]
    /\ reply = NoReply
    /\ rm = [t \in Threads |-> NoRm]
    /\ bc = [t \in Broadcasters |-> NoBc]
    /\ wk = NoWk
    /\ sent = {}
    /\ recorded = <<>>
    /\ results = <<>>
    /\ nreq = 0
    /\ add_failed = {}
    /\ enqueued = task_queue
    /\ cn_running = TRUE
    /\ peers_addresses = AddressBook
    /\ unit = [u \in Units |-> NoUnit]
    /\ caller = NoCaller
    /\ self_consumption = InitialConsumption
    /\ peers_data = [n \in DOMAIN AddressBook |-> InitialConsumption]
    /\ timers = <<>>
    /\ nchat = 0

NsNext ==
    \E h \in Handlers :
       \/ node_shutdown_scan(h)
       \/ node_shutdown_next(h)
       \/ node_shutdown_reply(h)
       \/ remove_peer_check(h)
       \/ remove_peer_do(h)
       \/ remove_peer_raise(h)

\* The node with peers listed, its queue drained, receiving notices.
NsSpec == NsInit /\ [][NsNext]_vars

(* ============ the /message route (handle_message, lines 238-347) ======= *)

\* The types handle_message has a branch for (lines 253, 290, 305, 316, 324).
KnownTypes == {"collaboration_request", "collaboration_response",
               "node_shutdown", "ping", "custom_message"}

\* The types of the messages that arrive: the known ones, types no branch is
\* written for, and "unknown", which line 246 puts in for an absent type.
MessageTypes == KnownTypes \cup {"task_update", "PING", "unknown"}

\* A dispatch that takes a type it does not know for a ping.
DispatchDefaultPing(type) == IF type \in KnownTypes THEN type ELSE "ping"

\* Lines 253, 290, 305, 316, 324, 347: the branch a type takes; the return
\* of line 347 is reached by every type that matched none.
Dispatch(type) ==
    IF type \in KnownTypes THEN type ELSE "unknown_message_type"

\* Lines 318-322, 340-345, 347: the status of the reply of a branch that
\* only replies.
ReplyStatus(branch) ==
    IF branch = "ping" THEN "pong"
    ELSE IF branch = "custom_message" THEN "message_received"
    ELSE "unknown_message_type"

\* Lines 316-347: a ping, a custom_message or a message of a type without a
\* branch arrives; the handler logs and replies.
handle_message_reply(h) ==
    /\ Accepts(h)
    /\ \E type \in MessageTypes \ {"collaboration_request",
                                   "collaboration_response", "node_shutdown"} :
         reply' = [status |-> ReplyStatus(Dispatch(type)), type |-> type]
    /\ nreq' = nreq + 1
    /\ UNCHANGED <<peers, task_queue, responses, response_lock, running, now,
                   pc, req, rm, bc, wk, sent, recorded, results, add_failed,
                   enqueued, cn_vars>>

\* The data of the collaboration_request messages that arrive: complete,
\* without message_id, without task_id, with an empty message_id.
RequestData ==
    { [message_id |-> "m1", task_id |-> "t1"],
      [task_id |-> "t1"],
      [message_id |-> "m1"],
      [message_id |-> "", task_id |-> "t1"] }

\* message_data.get(f) is a value Python takes for true.
Present(d, f) == f \in DOMAIN d /\ d[f] # ""

\* A test that only looks for the keys.
MissingKey(d) == "message_id" \notin DOMAIN d \/ "task_id" \notin DOMAIN d

\* Line 259: not message_id or not task_id
Missing(d) == ~Present(d, "message_id") \/ ~Present(d, "task_id")

\* Lines 253-265: a collaboration_request of node n arrives.  Without a
\* required field it is refused (line 260); otherwise the loop over
\* worker.peers begins (line 266), on the list itself.
collaboration_request_recv(h) ==
    /\ Accepts(h)
    /\ \E d \in RequestData, n \in NodeIds :
         IF Missing(d)
         THEN /\ reply' = [status |-> "error_400", data |-> d]
              /\ pc' = pc
              /\ req' = req
         ELSE /\ reply' = reply
              /\ pc' = [pc EXCEPT ![h] = "cq_iter"]
              /\ req' = [req EXCEPT ![h] =
                           [kind |-> "collaboration_request", data |-> d,
                            requesting_node |-> n, idx |-> 1,
                            start |-> peers, visited |-> <<>>,
                            address |-> <<>>]]
    /\ nreq' = nreq + 1
    /\ UNCHANGED <<peers, task_queue, responses, response_lock, running, now,
                   rm, bc, wk, sent, recorded, results, add_failed,
                   enqueued, cn_vars>>

\* Lines 266-275: the list iterator yields the element at its index of the
\* list as it is now, and the peer's /status is asked.  The node listed
\* under NodeAddr[n] reports n when it answers 200; a match ends the loop
\* (lines 271-273), anything else goes on (line 275 for an exception).
collaboration_request_probe(h) ==
    /\ Alive /\ pc[h] = "cq_iter"
    /\ req[h].idx <= Len(peers)
    /\ LET peer == peers[req[h].idx] IN
       \E out \in ProbeOutcomes :
         IF out = "200" /\ peer = NodeAddr[req[h].requesting_node]
         THEN /\ req' = [req EXCEPT ![h].visited = Append(@, peer),
                                    ![h].address = peer]
              /\ pc' = [pc EXCEPT ![h] = "cq_send"]
         ELSE /\ req' = [req EXCEPT ![h].visited = Append(@, peer),
                                    ![h].idx = @ + 1]
              /\ pc' = pc
    /\ UNCHANGED <<peers, task_queue, responses, response_lock, running, now,
                   reply, rm, bc, wk, sent, recorded, results, nreq,
                   add_failed,
                   enqueued, cn_vars>>

\* Lines 266, 277: the iterator is past the end of the list; no address was
\* found and nothing is sent.
collaboration_request_end(h) ==
    /\ Alive /\ pc[h] = "cq_iter"
    /\ req[h].idx > Len(peers)
    /\ pc' = [pc EXCEPT ![h] = "cq_reply"]
    /\ UNCHANGED <<peers, task_queue, responses, response_lock, running, now,
                   req, reply, rm, bc, wk, sent, recorded, results, nreq,
                   add_failed,
                   enqueued, cn_vars>>

\* Lines 277-282 and send_message (lines 83-109): the collaboration_response
\* is pushed to the address found; a timeout removes the address.
collaboration_request_send(h) ==
    /\ Alive /\ pc[h] = "cq_send"
    /\ \E out \in SendOutcomes :
         /\ sent' = sent \cup {[to |-> req[h].address,
                                type |-> "collaboration_response",
                                ok |-> out = "ok"]}
         /\ IF SendRemoves(out)
            THEN /\ pc' = [pc EXCEPT ![h] = "rm_check"]
                 /\ rm' = [rm EXCEPT ![h] =
                             [addr |-> req[h].address, ret |-> "cq_reply"]]
            ELSE /\ pc' = [pc EXCEPT ![h] = "cq_reply"]
                 /\ rm' = rm
    /\ UNCHANGED <<peers, task_queue, responses, response_lock, running, now,
                   req, reply, bc, wk, recorded, results, nreq, add_failed,
                   enqueued, cn_vars>>

\* Lines 284-288: the request is answered with status success and the
\* suggestion, whether or not a collaboration_response was pushed.
collaboration_request_reply(h) ==
    /\ Alive /\ pc[h] = "cq_reply"
    /\ reply' = [status |-> "success", data |-> req[h].data,
                 requesting_node |-> req[h].requesting_node,
                 start |-> req[h].start, visited |-> req[h].visited,
                 address |-> req[h].address]
    /\ pc' = [pc EXCEPT ![h] = "h_idle"]
    /\ req' = [req EXCEPT ![h] = NoReq]
    /\ UNCHANGED <<peers, task_queue, responses, response_lock, running, now,
                   rm, bc, wk, sent, recorded, results, nreq, add_failed,
                   enqueued, cn_vars>>

MsgNext ==
    \E h \in Handlers :
       \/ handle_message_reply(h)
       \/ collaboration_request_recv(h)
       \/ collaboration_request_probe(h)
       \/ collaboration_request_end(h)
       \/ collaboration_request_send(h)
       \/ collaboration_request_reply(h)
       \/ remove_peer_route(h)
       \/ remove_peer_reply(h)
       \/ remove_peer_check(h)
       \/ remove_peer_do(h)
       \/ remove_peer_raise(h)

\* The node with peers listed, its queue drained, receiving messages and
\* remove_peer requests.
MsgSpec == NsInit /\ [][MsgNext]_vars

(* ================ the node being stopped (lines 178-231) =============== *)

\* The steps a handler takes while it holds response_lock (lines 294-301).
LockedStep(h) ==
    \/ collaboration_response_check(h)
    \/ collaboration_response_create(h)
    \/ collaboration_response_append(h)

\* The node with peers listed and the two tasks of __main__ queued.
StopInit ==
    /\ peers \in Registries
    /\ task_queue = << [task_id |-> "init_1", needs_collaboration |-> FALSE],
                       [task_id |-> "collab_1", needs_collaboration |-> TRUE] >>
    /\ responses = <<>>
    /\ response_lock = NoOwner
    /\ running = TRUE
    /\ now = 0
    /\ pc = [t \in Threads |->
               IF t = "worker" THEN "w_loop"
               ELSE IF t = "main" THEN "m_run" ELSE "h_idle"]
    /\ req = [h \in Handlers |-> NoReq]
    /\ reply = NoReply
    /\ rm = [t \in Threads |-> NoRm]
    /\ bc = [t \in Broadcasters |-> NoBc]
    /\ wk = NoWk
    /\ sent = {}
    /\ recorded = <<>>
    /\ results = <<>>
    /\ nreq = 0
    /\ add_failed = {}
    /\ enqueued = task_queue
    /\ cn_running = TRUE
    /\ peers_addresses = AddressBook
    /\ unit = [u \in Units |-> NoUnit]
    /\ caller = NoCaller
    /\ self_consumption = InitialConsumption
    /\ peers_data = [n \in DOMAIN AddressBook |-> InitialConsumption]
    /\ timers = <<>>
    /\ nchat = 0

\* The worker at its tasks and responses arriving, while the node is
\* stopped at any time.
StopNext ==
    \/ worker_loop_test
    \/ worker_loop_get
    \/ worker_loop_empty
    \/ worker_loop_stop
    \/ process_task_plain
    \/ process_task_collaborate
    \/ process_task_no_peers
    \/ process_task_if_peers
    \/ process_task_len
    \/ wait_for_responses_quorum
    \/ wait_for_responses_poll
    \/ wait_for_responses_timeout
    \/ process_task_result
    \/ broadcast_send("worker")
    \/ broadcast_prune("worker")
    \/ broadcast_return("worker")
    \/ remove_peer_check("worker")
    \/ remove_peer_do("worker")
    \/ remove_peer_raise("worker")
    \/ \E h \in Handlers :
         \/ collaboration_response_lock(h)
         \/ LockedStep(h)
    \/ shutdown
    \/ broadcast_send("main")
    \/ broadcast_prune("main")
    \/ broadcast_return("main")
    \/ remove_peer_check("main")
    \/ remove_peer_do("main")
    \/ remove_peer_raise("main")
    \/ shutdown_join

\* The worker thread is scheduled as long as the process lives, and a
\* handler that holds the lock gets through its few statements; the main
\* thread may take any time.
StopSpec ==
    /\ StopInit /\ [][StopNext]_vars
    /\ WF_vars(WorkerThread)
    /\ \A h \in Handlers : WF_vars(LockedStep(h))

(* ============================== claims ================================= *)

\* C1: an add_peer whose probe fails (another status, an exception or a
\* timeout) leaves the registry as it was and reports failure; an add_peer
\* whose probe answers 200 reports success and the address is then listed.
C1_AddPeerProbe ==
    [][\A h \in Handlers :
         (pc[h] = "ap_probe" /\ pc'[h] = "h_idle") =>
            LET p == Normalize(req[h].addr) IN
            /\ reply'.addr = p
            /\ reply'.probe # "200" =>
                 peers' = peers /\ reply'.status = "failed_to_add_peer"
            /\ reply'.probe = "200" =>
                 reply'.status = "peer_added" /\ InList(p, peers')]_vars

\* An address whose add failed before is added once its probe answers 200.
C1_Witness ==
    /\ reply.status = "peer_added"
    /\ reply.probe = "200"
    /\ reply.retry
    /\ InList(reply.addr, peers)

\* C2: when remove_peer(p) has completed, the registry does not hold p,
\* whatever broadcast is in progress.
C2_RemovedIsAbsent ==
    [][\A t \in Threads :
         (pc[t] = "rm_do" /\ pc'[t] # "rm_do") =>
            ~InList(rm[t].addr, peers')]_vars

\* C3: the registry holds every address at most once.
C3_NoDuplicates ==
    \A i, j \in 1..Len(peers) : peers[i] = peers[j] => i = j

\* C4: after its attempt-th consecutive failure a retry thread waits
\* min(2^(attempt-1), 10), so five failures in a row wait 1, 2, 4, 8, 10.
C4_BackoffSequence ==
    \A u \in Units :
       /\ \A k \in 1..Len(unit[u].delays) :
            unit[u].delays[k] = Min(2 ^ (k - 1), 10)
       /\ Len(unit[u].delays) = 5 => unit[u].delays = <<1, 2, 4, 8, 10>>

\* A retry thread that has stopped or run to its end.
UnitOver(u) == unit[u].pc \in {"idle", "delivered", "gave_up"}

\* C5: once the running flag is cleared, a retry thread that is asleep or
\* at its loop test goes on to no further delivery attempt (a thread already
\* past the test finishes the attempt it is in), and every retry thread
\* comes to its end.
C5_RetryStopsOnShutdown ==
    /\ [][\A u \in Units :
            (~cn_running /\ unit[u].pc \in {"sleep", "loop"}) =>
               unit'[u].pc \in {"sleep", "loop", "gave_up"}]_vars
    /\ (~cn_running ~> \A u \in Units : UnitOver(u))

\* A thread that was retrying when the flag was cleared gave up.
C5_Witness ==
    \E u \in Units :
       /\ unit[u].pc = "gave_up"
       /\ unit[u].retry_count > 0
       /\ ~cn_running

IsPrefix(s, t) == Len(s) <= Len(t) /\ SubSeq(t, 1, Len(s)) = s

\* C6: wait_for_responses does not go on past its timeout: it has slept at
\* most the timeout, it can always take its next step when the lock is free,
\* and without the expected count it returns, at the timeout or when the
\* node stops, the list that accumulated (empty when the id has no entry).
C6_WaitReturnsAtTimeout ==
    /\ [](pc["worker"] \in {"w_wait", "w_result"} =>
            wk.elapsed <= TimeoutPolls)
    /\ []((pc["worker"] = "w_wait" /\ Alive /\ response_lock = NoOwner) =>
            ENABLED (\/ wait_for_responses_quorum
                     \/ wait_for_responses_poll
                     \/ wait_for_responses_timeout))
    /\ [][(pc["worker"] = "w_wait" /\ pc'["worker"] = "w_result"
             /\ ~wk'.met) =>
            /\ wk.elapsed = TimeoutPolls \/ ~running
            /\ wk'.returned = Recorded(wk.message_id)
            /\ ~HasKey(wk.message_id) => wk'.returned = <<>>]_vars

\* The wait timed out while running, with no entry for its id.
C6_Witness ==
    /\ pc["worker"] = "w_result"
    /\ ~wk.met /\ running
    /\ wk.elapsed = TimeoutPolls
    /\ wk.ref = "default"
    /\ wk.expected > 0

\* C7: once the expected count of responses is recorded for its id, the
\* wait returns at its next poll: it never sleeps another interval while the
\* count recorded for the id is at least the expected count.
C7_ReturnsWhenCountReached ==
    [][(pc["worker"] = "w_wait" /\ wk'.elapsed = wk.elapsed + 1) =>
          Len(Recorded(wk.message_id)) < wk.expected]_vars

\* C8: for every id the correlator list is the sequence of the appends made
\* for it, in the order they were made, and what a wait returned is a prefix
\* of it.
C8_RecordKeepsOrder ==
    /\ \A id \in DOMAIN responses : responses[id] = Recorded(id)
    /\ \A id \in DOMAIN recorded : HasKey(id)
    /\ pc["worker"] = "w_result" =>
         IsPrefix(wk.returned, Recorded(wk.message_id))

\* Two handlers have appended under the same id.
C8_Witness ==
    \E id \in DOMAIN responses :
       /\ Len(responses[id]) = 2
       /\ responses[id][1].from_node # responses[id][2].from_node

\* C9: the worker, while it processes a task that needs no collaboration,
\* makes no delivery attempt, does not enter broadcast or wait, and leaves
\* correlator and registry as they are.
C9_PlainTaskTouchesNothing ==
    /\ [](wk.task.needs_collaboration \/
          pc["worker"] \in {"w_loop", "w_get", "w_work", "w_stopped"})
    /\ [][(pc["worker"] = "w_work" /\ ~wk.task.needs_collaboration
             /\ pc'["worker"] # "w_work") =>
            /\ pc'["worker"] = "w_loop"
            /\ sent' = sent /\ responses' = responses /\ peers' = peers
            /\ response_lock' = response_lock]_vars

\* A plain task was completed while a peer was listed.
C9_Witness ==
    /\ \E i \in 1..Len(results) : results[i].note = "plain"
    /\ pc["worker"] = "w_loop"
    /\ peers # <<>>
    /\ Len(results) = 1

\* C10: with A, B and C listed, A and B answering in time and C timing out,
\* the finished task has sent the request to all three and its result holds
\* exactly the two answers of A and B; C leaves the registry only by the
\* worker's remove_peer following a failed send_message to C; no step of the
\* retrying sender changes the registry or the address book.
C10_TwoOfThree ==
    /\ [](results # <<>> =>
            /\ Len(results) = 1
            /\ results[1].note = "input"
            /\ Len(results[1].input) = 2
            /\ {results[1].input[i].from_node : i \in 1..2} = {"A", "B"}
            /\ \A a \in {NodeAddr["A"], NodeAddr["B"], AddrC} :
                  \E m \in sent :
                     m.to = a /\ m.type = "collaboration_request")
    /\ [](~InList(AddrC, peers) =>
            [to |-> AddrC, type |-> "collaboration_request",
             ok |-> FALSE] \in sent)
    /\ [][peers' # peers =>
            /\ pc["worker"] = "rm_do" /\ rm["worker"].addr = AddrC
            /\ unit' = unit]_vars
    /\ [][unit' # unit =>
            peers' = peers /\ peers_addresses' = peers_addresses]_vars

\* The task is finished with two answers, C is off the registry, and the
\* retrying sender has failed at C and still holds it in its address book.
C10_Witness ==
    /\ results # <<>> /\ Len(results[1].input) = 2
    /\ peers = <<NodeAddr["A"], NodeAddr["B"]>>
    /\ unit["u1"].to = AddrC /\ unit["u1"].retry_count >= 2
    /\ peers_addresses["node3"] = AddrC

\* C11: when a node_shutdown notice of a node has been acknowledged and a
\* second notice of the same node arrives, the first has made the registry
\* shorter by at most one address and the second names nothing to remove.
C11_ShutdownIdempotent ==
    [][\A h \in Handlers :
         (/\ pc[h] = "h_idle" /\ pc'[h] = "ns_next"
          /\ reply.status = "acknowledged"
          /\ reply.node_id = req'[h].node_id) =>
            /\ Len(reply.before) - Len(peers) <= 1
            /\ req'[h].todo = <<>>]_vars

\* C12: when a node_shutdown notice is acknowledged the address of the
\* announcing node is no longer listed, and the handler has removed no
\* other address.
C12_AnnouncerRemoved ==
    [][\A h \in Handlers :
         /\ (pc[h] = "ns_next" /\ pc'[h] = "h_idle") =>
               ~InList(req[h].from_addr, peers')
         /\ (req[h] # NoReq /\ req[h].kind = "node_shutdown"
               /\ pc[h] = "rm_do" /\ peers' # peers) =>
               rm[h].addr = req[h].from_addr]_vars

\* C13: send_message makes one delivery attempt, and after an attempt that
\* failed (a timeout, another error or a status other than 200) it goes on
\* to remove the address, unless the address is no longer listed.
C13_SendOnceRemovesOnFailure ==
    [][\A t \in Broadcasters :
         (pc[t] = "b_send" /\ bc'[t] # bc[t]) =>
            LET peer == bc[t].snap[bc[t].idx] IN
            /\ bc'[t].idx = bc[t].idx + 1
            /\ (Len(bc'[t].dead) > Len(bc[t].dead)) =>
                  ((pc'[t] = "rm_check" /\ rm'[t].addr = peer)
                     \/ ~InList(peer, peers'))]_vars

\* C14: a caller of send_message_with_retry is never held by the thread it
\* started: the call can return whatever that thread does, and the caller
\* gets through all its calls although no message is ever delivered.
C14_CallerNotBlocked ==
    /\ [](caller.pc = "started" => ENABLED send_initial_messages_return)
    /\ (caller.pc = "call") ~> (caller.pc = "done")

\* The caller is through while both threads are still retrying.
C14_Witness ==
    /\ caller.pc = "done"
    /\ \A u \in Units :
          unit[u].pc \in {"try", "post", "sleep"} /\ unit[u].retry_count >= 2

\* C15: a retry thread ends without delivery only when the node has stopped
\* running, however many attempts have failed; a thread whose peer accepts
\* after finitely many failures delivers, unless the node stops; a thread
\* that has delivered makes no further attempt.
C15_RetryUntilDelivered ==
    /\ [][\A u \in Units :
            (unit[u].pc # "gave_up" /\ unit'[u].pc = "gave_up") =>
               ~cn_running]_vars
    /\ [][\A u \in Units :
            unit[u].pc = "delivered" => unit'[u] = unit[u]]_vars
    /\ \A u \in Units :
          (unit[u].pc \notin {"idle", "gave_up"}) ~>
             (unit[u].pc = "delivered" \/ ~cn_running)

\* A thread has delivered after all the failures the run allows.
C15_Witness ==
    \E u \in Units :
       /\ unit[u].pc = "delivered"
       /\ unit[u].retry_count = MaxRetries
       /\ cn_running

\* The worker loop has caught an exception of process_task.
Caught == \E i \in 1..Len(results) : results[i].note = "exception"

\* C16: an exception of process_task takes the worker back to the head of
\* its loop; the loop ends only once running is cleared; and after a caught
\* exception every queued task is taken and worked off, unless the node is
\* stopped.
C16_WorkerSurvivesException ==
    /\ [][(pc["worker"] = "w_work" /\ Raises(wk.task)
             /\ pc'["worker"] # "w_work") => pc'["worker"] = "w_loop"]_vars
    /\ [](pc["worker"] = "w_stopped" => ~running)
    /\ \A n \in 0..(2 + MaxReq) :
          (Caught /\ Len(results) = n /\ task_queue # <<>>) ~>
             (Len(results) > n \/ ~running)

\* A task posted after the exception has been worked off.
C16_Witness ==
    /\ Len(results) = 4
    /\ results[3].note = "exception"
    /\ results[4].note = "none"
    /\ running

\* C17: a task the worker has taken is not aborted by what happens to its
\* peers: whenever the worker comes back to the head of its loop from a task
\* whose own work does not fail, the task's result has been returned and
\* logged.
C17_TaskAlwaysCompletes ==
    [][(pc["worker"] \notin {"w_loop", "w_get", "w_stopped"}
          /\ pc'["worker"] = "w_loop" /\ ~Raises(wk.task)) =>
         /\ Len(results') = Len(results) + 1
         /\ results'[Len(results')].note # "exception"]_vars

\* C18: the expected count the worker waits for is the number of peers in
\* the copy of the registry its broadcast went over.
C18_ExpectedIsBroadcastSize ==
    pc["worker"] \in {"w_wait", "w_result"} => wk.expected = wk.asked

\* The node's own address: nothing in add_peer tells it from another.
SelfAddr == <<HTTP, "a">>

\* C19: no collaboration_request is sent to the node's own address.
C19_NoRequestToSelf ==
    \A m \in sent : m.type = "collaboration_request" => m.to # SelfAddr

\* C20: the id a collaborative task is given has no entries in the
\* correlator (responses are recorded under an id only once a task was
\* given it, so entries mean an earlier task had the same id).
C20_FreshCorrelationId ==
    [][(pc["worker"] = "w_work" /\ wk'.message_id # wk.message_id) =>
          Get(wk'.message_id) = <<>>]_vars

\* The requests the node is awaiting responses for: the one of the task the
\* worker has given an id and not yet finished (the worker is sequential).
Awaited == IF wk.message_id # <<>> THEN 1 ELSE 0

\* C21: the correlator holds no more ids than there are requests being
\* awaited, whatever responses arrive and whatever tasks have finished.
C21_CorrelatorBounded ==
    Cardinality(DOMAIN responses) <= Awaited

\* The effects a refused or unrecognised message must not have.
NothingTouched ==
    /\ peers' = peers /\ responses' = responses
    /\ task_queue' = task_queue /\ sent' = sent

\* C22: a collaboration_request without a message_id or without a task_id
\* never gets into the handler's loop or its reply of success; the step that
\* takes a request and answers it with the error is taken for such requests
\* only and leaves registry, correlator, task queue and the messages sent
\* as they were.
C22_MalformedRequestRejected ==
    /\ [](\A h \in Handlers :
            (req[h].kind = "collaboration_request") =>
               /\ Present(req[h].data, "message_id")
               /\ Present(req[h].data, "task_id"))
    /\ []((reply.status = "success") =>
            /\ Present(reply.data, "message_id")
            /\ Present(reply.data, "task_id"))
    /\ [][(nreq' = nreq + 1 /\ pc' = pc /\ "data" \in DOMAIN reply'
             /\ reply'.status = "error_400") =>
            /\ Missing(reply'.data)
            /\ req' = req /\ rm' = rm
            /\ NothingTouched]_vars

\* A request without message_id was refused while another request was in
\* the handler's loop and a peer was listed.
C22_Witness ==
    /\ reply.status = "error_400"
    /\ "message_id" \notin DOMAIN reply.data
    /\ peers # <<>>
    /\ \E h \in Handlers : pc[h] = "cq_iter"

\* C23: a message whose type is none of the five known ones is answered
\* with unknown_message_type, and the step that takes and answers it leaves
\* registry, correlator, task queue and the messages sent as they were.
C23_UnknownTypeRejected ==
    /\ []("type" \in DOMAIN reply =>
            (reply.type \notin KnownTypes =>
                reply.status = "unknown_message_type"))
    /\ [][(nreq' = nreq + 1 /\ pc' = pc /\ "type" \in DOMAIN reply') =>
            /\ req' = req /\ rm' = rm
            /\ NothingTouched]_vars

\* A message of a type that differs from a known one only in its case was
\* answered with unknown_message_type, a peer being listed.
C23_Witness ==
    /\ reply.status = "unknown_message_type"
    /\ reply.type = "PING"
    /\ peers # <<>>

\* C24: a collaborative task that is finished with fewer responses than
\* were expected, or with no peer left of those its request went to, has a
\* result with the note that the responses are missing, which the result of
\* a task with all its responses does not have.
C24_NoQuorumNoted ==
    [][(/\ Len(results') = Len(results) + 1
        /\ wk.task.needs_collaboration
        /\ results'[Len(results')].note # "exception"
        /\ \/ pc["worker"] = "w_if_peers" /\ wk.asked > 0
           \/ /\ pc["worker"] = "w_result"
              /\ Len(results'[Len(results')].input) < wk.expected) =>
          results'[Len(results')].note = "no_peer_responses"]_vars

\* C25: a node that answers a collaboration_request with success has, by
\* then, delivered its collaboration_response to the requesting node, from
\* where the requester's handler records it under the id of the request
\* (the answer on the open connection is not recorded: broadcast_message
\* collects it and process_task drops what broadcast_message returns).
C25_ReplyReachesRequester ==
    [][\A h \in Handlers :
         (pc[h] = "cq_reply" /\ pc'[h] = "h_idle") =>
            [to |-> NodeAddr[req[h].requesting_node],
             type |-> "collaboration_response", ok |-> TRUE] \in sent]_vars

\* C27: the loop of the collaboration_request handler over the registry
\* visits no peer twice, and when it ends without a match it has visited
\* every peer that was listed when it began and is listed still, whatever
\* was removed meanwhile.
C27_IterationOnSnapshot ==
    /\ [](\A h \in Handlers :
            req[h].kind = "collaboration_request" =>
               \A p \in Range(req[h].visited) : Count(p, req[h].visited) = 1)
    /\ [][\A h \in Handlers :
            (pc[h] = "cq_iter" /\ pc'[h] = "cq_reply") =>
               \A p \in Range(req[h].start) :
                  InList(p, peers) => InList(p, req[h].visited)]_vars

\* C28: remove_peer never faults: a thread that has found the address
\* listed and goes on to remove it finds it listed still, whatever
\* removals of the same address run beside it.
C28_RemoveNeverFaults ==
    [][\A t \in Threads :
         (pc[t] = "rm_do" /\ pc'[t] # "rm_do") =>
            InList(rm[t].addr, peers)]_vars

\* C30: shutdown clears the running flag before anything else, sends the
\* node_shutdown notice to every peer of the copy of the registry it took,
\* whatever the outcome of each send, and comes to its end only through the
\* join of the worker thread that follows the broadcast.
C30_ShutdownCompletes ==
    /\ [][(pc["main"] = "m_run" /\ pc'["main"] # "m_run") => ~running']_vars
    /\ [][(pc["main"] = "b_prune" /\ pc'["main"] = "m_join") =>
            \A p \in Range(bc["main"].snap) :
               \E m \in sent : m.to = p /\ m.type = "node_shutdown"]_vars
    /\ [][(pc["main"] # "m_exit" /\ pc'["main"] = "m_exit") =>
            pc["main"] = "m_join"]_vars

\* C26: once the running flag is cleared the worker loop begins no further
\* iteration, a wait for responses returns at its next poll, a stopped loop
\* takes no task, and the worker loop stops (unless the process is over
\* before).
C26_WorkerStopsOnceFlagCleared ==
    /\ [][~running => ~(pc["worker"] = "w_loop" /\ pc'["worker"] = "w_get")]_vars
    /\ [][(~running /\ pc["worker"] = "w_wait" /\ wk' # wk) =>
            pc'["worker"] = "w_result"]_vars
    /\ [][pc["worker"] = "w_stopped" =>
            /\ pc'["worker"] = "w_stopped"
            /\ Len(task_queue') >= Len(task_queue)]_vars
    /\ ~running ~> (pc["worker"] = "w_stopped" \/ ~Alive)

\* The flag was cleared while the worker waited for responses, and the wait
\* has returned before its timeout and without the expected count.
C26_Witness ==
    /\ pc["worker"] = "w_result" /\ Alive
    /\ ~running /\ ~wk.met
    /\ wk.elapsed < TimeoutPolls

\* The task ids of a sequence of tasks or of results.
TaskIds(s) == [i \in 1..Len(s) |-> s[i].task_id]

\* The task the worker has taken and not yet finished.
InHand == IF wk.task = NoTask THEN <<>> ELSE <<wk.task.task_id>>

\* C29: the tasks the worker has finished (completed or failed), the task
\* it has in hand and the tasks in the queue are, in this order, the tasks
\* that were put on the queue in the order they were put: none is lost,
\* taken twice, overtaken or put back; and what is queued is what was put
\* last.
C29_TasksInOrderOnce ==
    /\ TaskIds(results) \o InHand \o TaskIds(task_queue) = TaskIds(enqueued)
    /\ task_queue =
         SubSeq(enqueued, Len(enqueued) - Len(task_queue) + 1, Len(enqueued))

\* Two posted tasks, one of them failing, were worked off after the two
\* initial ones; the queue is empty again.
C29_Witness ==
    /\ Len(results) = 4
    /\ results[3].note = "exception"
    /\ results[4].task_id = "collab_1"
    /\ task_queue = <<>>
    /\ InHand = <<>>

\* The positions of a thread inside broadcast_message and what it calls.
InBroadcast == {"b_send", "b_prune", "rm_check", "rm_do"}

\* The peers the broadcast of thread t got no reply from.
NoReplyFrom(t) ==
    {m.to : m \in {n \in sent : n.type = bc[t].type /\ ~n.ok}}

\* C31: a broadcast ends by returning, in the order of its copy of the
\* registry, the replies of the peers that answered 200; by then no peer of
\* the copy from which it got no reply (a timeout, another exception, a
\* status other than 200) is listed, and it has removed no other peer.
C31_BroadcastPrunesSilentPeers ==
    /\ [][\A t \in Broadcasters :
            (pc[t] \in InBroadcast /\ pc'[t] \notin InBroadcast) =>
               /\ pc'[t] = bc[t].ret
               /\ bc[t].replies =
                    SelectSeq(bc[t].snap,
                              LAMBDA p : p \notin NoReplyFrom(t))
               /\ \A p \in NoReplyFrom(t) : ~InList(p, peers')]_vars
    /\ [][\A t \in Broadcasters :
            (pc[t] = "rm_do" /\ peers' # peers) =>
               rm[t].addr \in NoReplyFrom(t)]_vars

\* C32: the peer input in the result of a collaborative task is what the
\* correlator held under the task's id at the moment wait_for_responses
\* returned; the replies broadcast_message collected are in neither.
C32_ResultIsEntryAtReturn ==
    /\ [][(pc["worker"] = "w_result" /\ Len(results') = Len(results) + 1) =>
            results'[Len(results')].input = wk.returned]_vars
    /\ [][\A t \in Broadcasters :
            (pc[t] = "b_prune" /\ pc'[t] = bc[t].ret) =>
               responses' = responses /\ results' = results]_vars

\* C33: remove undoes add for every address form: when /remove_peer has
\* answered for an address, given with or without a scheme, and no other
\* request is in progress, the registry holds no entry for that endpoint.
C33_RemoveUndoesAdd ==
    [][\A h \in Handlers :
         (/\ pc[h] = "h_rm_reply" /\ pc'[h] = "h_idle"
          /\ \A g \in Handlers \ {h} : pc[g] = "h_idle") =>
            ~InList(Normalize(req[h].addr), peers')]_vars

\* C34: a chat message from a node id that is not in the address book
\* changes nothing: the keys of peers_data are the configured peer ids, and
\* every retry unit and every Timer handle_chat_message started targets an
\* address of peers_addresses.
C34_UnknownSenderIgnored ==
    /\ DOMAIN peers_data = DOMAIN AddressBook
    /\ \A u \in Units :
         unit[u].pc # "idle" =>
            \E n \in DOMAIN peers_addresses : unit[u].to = peers_addresses[n]
    /\ \A i \in 1..Len(timers) :
         \E n \in DOMAIN peers_addresses : timers[i] = peers_addresses[n]

====
